---- MODULE Spec2Model ----
(***************************************************************************)
(* Artvision copyright registry: CopyrightProtector (copyright_protector.py)*)
(* and retry_pending_files (retry_blockchain.py).                          *)
(*                                                                         *)
(* The storage directory holds registry.json (the ledger), the proofs      *)
(* directory (LocalProof documents and .ots anchor artifacts).  A          *)
(* CopyrightProtector instance holds the ledger's entries in memory.       *)
(* Optional values of the program (None) are sequences of length 0 or 1.   *)
(***************************************************************************)
EXTENDS Integers, Sequences, FiniteSets, TLC

\* ------------------------------------------------------------------ bounds
\* Distinct file contents the callers ever write (content 0 = no file).
MaxContent == 2

\* ----------------------------------------------------------------- domains
Contents == 1..MaxContent

\* Source files the callers pass: pathlib paths, as directory, stem, suffix.
PathA == [dir |-> "site", stem |-> "a", suffix |-> ".html"]
PathB == [dir |-> "site", stem |-> "b", suffix |-> ".html"]
Paths == {PathA, PathB}
Dirs == {"site"}

\* What one anchor submission can meet (urlopen of the OpenTimestamps pool):
\*   "ok"          a 2xx response, whose body is read;
\*   "url_error"   a urllib.error.URLError: no network, a refused or timed-out
\*                 connection, a non-2xx response (HTTPError is a URLError);
\*   "other_error" any other exception: a malformed response
\*                 (http.client.HTTPException), a timeout while reading the
\*                 body (socket.timeout), a failed write of the .ots file.
AnchorOutcomes == {"ok", "url_error", "other_error"}

\* Faults of the local filesystem one call can meet.
NoFault == [read |-> FALSE, proof |-> FALSE, save |-> "none"]
ReadFaults == {NoFault, [NoFault EXCEPT !.read = TRUE]}
Faults == [read : BOOLEAN, proof : BOOLEAN, save : {"none", "denied", "nospace"}]

\* ------------------------------------------------------------ pathlib
\* Path.name
PathName(p) == [stem |-> p.stem, suffix |-> p.suffix]

\* Path(name).stem
PathStem(name) == name.stem

\* ------------------------------------------------------------- hashing
\* Mutant: the read loop never feeds the digest, which is that of no bytes.
calculate_hash_empty(content) == (0 * 37 + 11) % 256

\* SHA-256 of the file's bytes, as a two-digit hex number (the digest width
\* is scaled from 64 hex digits to 2); distinct contents of the model have
\* distinct digests.
calculate_hash(content) == (content * 37 + 11) % 256

\* file_hash[:16], the leading digits of the digest (scaled to the first one).
HashPrefix(fp) == fp \div 16

\* ---------------------------------------------------------- proof store
\* f"{stem}_{file_hash[:16]}_proof.json"
ProofFileName(stem, fp) == [stem |-> stem, prefix |-> HashPrefix(fp), ext |-> "_proof.json"]

\* f"{file_name}_{file_hash[:16]}.ots"
OtsFileName(stem, fp) == [stem |-> stem, prefix |-> HashPrefix(fp), ext |-> ".ots"]

\* ------------------------------------------------------ ledger document
\* json.dump writes the ledger as a stream of text: the opening of the
\* document, one record per entry, the closing.
TokOpen == [t |-> "open", e |-> <<>>]
TokClose == [t |-> "close", e |-> <<>>]
TokEntry(entry) == [t |-> "entry", e |-> <<entry>>]

json_dump(files) ==
  <<TokOpen>> \o [i \in 1..Len(files) |-> TokEntry(files[i])] \o <<TokClose>>

\* json.load accepts only a complete document.
WellFormed(text) ==
  /\ Len(text) >= 2
  /\ text[1] = TokOpen
  /\ text[Len(text)] = TokClose
  /\ \A i \in 2..(Len(text) - 1) : text[i].t = "entry"

json_load(text) == [i \in 1..(Len(text) - 2) |-> text[i + 1].e[1]]

\* The registry file: absent, or a text.
NoFile == [exists |-> FALSE, text |-> <<>>]
FileWith(text) == [exists |-> TRUE, text |-> text]

\* _load_registry: the files of the ledger, or a JSONDecodeError.
load_registry(dsk) ==
  IF ~dsk.exists THEN [ok |-> TRUE, files |-> <<>>]
  ELSE IF WellFormed(dsk.text) THEN [ok |-> TRUE, files |-> json_load(dsk.text)]
  ELSE [ok |-> FALSE, files |-> <<>>]

\* Mutant: the dump holds the last entry alone.
save_registry_last_only(dsk, files, fault) ==
  FileWith(json_dump(SubSeq(files, Len(files), Len(files))))

\* Mutant: the ledger is written only when there is no registry.json yet.
save_registry_if_absent(dsk, files, fault) ==
  IF dsk.exists THEN dsk ELSE FileWith(json_dump(files))

\* _save_registry run to its end: open(..., 'w') then json.dump.
\* "denied": open fails and the file is as it was; "nospace": the file was
\* truncated by open and the dump stops part-way.
save_registry(dsk, files, fault) ==
  CASE fault = "none" -> FileWith(json_dump(files))
    [] fault = "denied" -> dsk
    [] OTHER -> FileWith(SubSeq(json_dump(files), 1, Len(files)))

\* ------------------------------------------------------------ the world
\* What the operations read and write: the instance's registry["files"],
\* registry.json, and the proofs directory (LocalProof documents written,
\* those written more than once, anchor artifacts written).
World(files, dsk, pfs, rew, ots) ==
  [registry |-> files, disk |-> dsk, proofFiles |-> pfs, rewritten |-> rew, otsFiles |-> ots]

\* What a call reports: how it ended, what it returned, what it did.
\* (fp: the hash verify_file reports; package: the files export_proof_package
\* put in the package directory; printed: the files whose exception a batch
\* printed; protected, skipped, errors: the lists of auto_protect's result.)
Report(outcome, ret, events, submitted, caught) ==
  [outcome |-> outcome, ret |-> ret, events |-> events,
   submitted |-> submitted, caught |-> caught,
   fp |-> <<>>, package |-> {}, printed |-> <<>>,
   protected |-> <<>>, skipped |-> <<>>, errors |-> <<>>]

\* ---------------------------------------------------------- anchor client
\* urlopen raises URLError (HTTPError is one) or another exception; both
\* except clauses return None.
UrlErrors == {"url_error"}

\* Mutant: the receipt is returned as confirmed.
AnchorReceipt_confirmed(stem, fp) ==
  [service |-> "OpenTimestamps", blockchain |-> "Bitcoin",
   ots_file |-> OtsFileName(stem, fp), status |-> "confirmed"]

AnchorReceipt(stem, fp) ==
  [service |-> "OpenTimestamps", blockchain |-> "Bitcoin",
   ots_file |-> OtsFileName(stem, fp), status |-> "pending_confirmation"]

\* Mutant: only URLError is caught; any other exception escapes.
create_timestamp_urlerror_only(ots, fp, stem, net) ==
  CASE net = "ok" ->
         [receipt |-> <<AnchorReceipt(stem, fp)>>, otsFiles |-> ots \cup {OtsFileName(stem, fp)},
          caught |-> "none", raised |-> FALSE]
    [] net \in UrlErrors ->
         [receipt |-> <<>>, otsFiles |-> ots, caught |-> "URLError", raised |-> FALSE]
    [] OTHER ->
         [receipt |-> <<>>, otsFiles |-> ots, caught |-> "none", raised |-> TRUE]

\* Mutant: the receipt is returned without the .ots file being written.
create_timestamp_receipt_only(ots, fp, stem, net) ==
  CASE net = "ok" ->
         [receipt |-> <<AnchorReceipt(stem, fp)>>, otsFiles |-> ots,
          caught |-> "none", raised |-> FALSE]
    [] net \in UrlErrors ->
         [receipt |-> <<>>, otsFiles |-> ots, caught |-> "URLError", raised |-> FALSE]
    [] OTHER ->
         [receipt |-> <<>>, otsFiles |-> ots, caught |-> "Exception", raised |-> FALSE]

\* create_timestamp_opentimestamps: the receipt (or None), the .ots files
\* after the call, the except clause taken, whether an exception escapes.
create_timestamp_opentimestamps(ots, fp, stem, net) ==
  CASE net = "ok" ->
         [receipt |-> <<AnchorReceipt(stem, fp)>>, otsFiles |-> ots \cup {OtsFileName(stem, fp)},
          caught |-> "none", raised |-> FALSE]
    [] net \in UrlErrors ->
         [receipt |-> <<>>, otsFiles |-> ots, caught |-> "URLError", raised |-> FALSE]
    [] OTHER ->
         [receipt |-> <<>>, otsFiles |-> ots, caught |-> "Exception", raised |-> FALSE]

\* ------------------------------------------------------------ local proof
\* Mutant: the LocalProof document is never written.
create_local_proof_skip(w, path, fp) == w

\* create_local_proof, past its read of the source: the document is written
\* under its name, over whatever was there.
create_local_proof(w, path, fp) ==
  LET name == ProofFileName(path.stem, fp)
  IN [w EXCEPT !.proofFiles = @ \cup {name},
               !.rewritten = IF name \in w.proofFiles THEN @ \cup {name} ELSE @]

LocalProof(path, fp) == [proof_file |-> ProofFileName(path.stem, fp)]

\* ---------------------------------------------------------------- entries
\* Mutant: an entry without a receipt is given another status.
RegistryEntry_pending_status(id, path, fp, local, receipt) ==
  [id |-> id, file_name |-> PathName(path), original_path |-> path, hash |-> fp,
   proofs |-> [local |-> local, blockchain |-> receipt],
   status |-> IF receipt = <<>> THEN "pending" ELSE "protected"]

RegistryEntry(id, path, fp, local, receipt) ==
  [id |-> id, file_name |-> PathName(path), original_path |-> path, hash |-> fp,
   proofs |-> [local |-> local, blockchain |-> receipt], status |-> "protected"]

\* Mutant: only the most recent entry is compared.
HashMatches_last_only(files, fp) == {i \in {Len(files)} \ {0} : files[i].hash = fp}

\* Mutant: the loop skips the first entry.
HashMatches_skip_first(files, fp) == {i \in 2..Len(files) : files[i].hash = fp}

\* Mutant: the gate only counts entries that have a receipt.
HashMatches_anchored_only(files, fp) ==
  {i \in 1..Len(files) : files[i].hash = fp /\ files[i].proofs.blockchain # <<>>}

\* for entry in self.registry["files"]: if entry["hash"] == file_hash
HashMatches(files, fp) == {i \in 1..Len(files) : files[i].hash = fp}

\* Mutant: the first entry of the registry is returned, not the matching one.
FirstMatch_head(files, fp) == files[1]

\* the first entry of the loop that matches
FirstMatch(files, fp) == files[CHOOSE i \in HashMatches(files, fp) :
                                 \A j \in HashMatches(files, fp) : i <= j]

\* Mutant: ids count from 0.
NextId_zero_based(files) == Len(files)

\* the id a new entry gets: len(self.registry["files"]) + 1
NextId(files) == Len(files) + 1

\* ------------------------------------------------------------ protect_file
\* Mutant: the existence check always passes.
path_exists_always(content) == TRUE

\* file_path.exists(): content 0 stands for a path with no file.
path_exists(content) == content # 0

\* Mutant: protect_file submits to the anchor service and appends the entry
\* before it writes the LocalProof.
protect_file_anchor_first(w, path, content, fault, net) ==
  LET fp == calculate_hash(content)
      ts == create_timestamp_opentimestamps(w.otsFiles, fp, path.stem, net)
      entry == RegistryEntry(NextId(w.registry), path, fp, LocalProof(path, fp), ts.receipt)
      appended == [w EXCEPT !.otsFiles = ts.otsFiles, !.registry = Append(@, entry)]
      local == create_local_proof(appended, path, fp)
      saved == [local EXCEPT !.disk = save_registry(@, local.registry, fault.save)]
  IN CASE ~path_exists(content) ->
            [w |-> w, r |-> Report("FileNotFoundError", <<>>, <<>>, <<>>, <<>>)]
       [] path_exists(content) /\ fault.read ->
            [w |-> w, r |-> Report("IOError", <<>>, <<"hash">>, <<>>, <<>>)]
       [] path_exists(content) /\ ~fault.read /\ HashMatches(w.registry, fp) # {} ->
            [w |-> w, r |-> Report("registered", <<FirstMatch(w.registry, fp)>>,
                                   <<"hash", "lookup">>, <<>>, <<>>)]
       [] path_exists(content) /\ ~fault.read /\ HashMatches(w.registry, fp) = {} /\ ts.raised ->
            [w |-> w, r |-> Report("Exception", <<>>, <<"hash", "lookup", "submit">>,
                                   <<fp>>, <<ts.caught>>)]
       [] path_exists(content) /\ ~fault.read /\ HashMatches(w.registry, fp) = {} /\ ~ts.raised
          /\ fault.proof ->
            [w |-> appended, r |-> Report("IOError", <<>>,
                                          <<"hash", "lookup", "submit", "append", "local_proof">>,
                                          <<fp>>, <<ts.caught>>)]
       [] OTHER ->
            [w |-> saved,
             r |-> Report(IF fault.save = "none" THEN "protected" ELSE "IOError",
                          IF fault.save = "none" THEN <<entry>> ELSE <<>>,
                          <<"hash", "lookup", "submit", "append", "local_proof", "save">>,
                          <<fp>>, <<ts.caught>>)]

\* protect_file(path) on a file of the given content (0: no such file),
\* under the faults and the anchor outcome the call meets.
protect_file(w, path, content, fault, net) ==
  LET fp == calculate_hash(content)
      local == create_local_proof(w, path, fp)
      ts == create_timestamp_opentimestamps(w.otsFiles, fp, path.stem, net)
      entry == RegistryEntry(NextId(w.registry), path, fp, LocalProof(path, fp), ts.receipt)
      appended == [local EXCEPT !.otsFiles = ts.otsFiles, !.registry = Append(@, entry)]
      saved == [appended EXCEPT !.disk = save_registry(@, appended.registry, fault.save)]
  IN CASE ~path_exists(content) ->
            [w |-> w, r |-> Report("FileNotFoundError", <<>>, <<>>, <<>>, <<>>)]
       [] path_exists(content) /\ fault.read ->
            [w |-> w, r |-> Report("IOError", <<>>, <<"hash">>, <<>>, <<>>)]
       [] path_exists(content) /\ ~fault.read /\ HashMatches(w.registry, fp) # {} ->
            [w |-> w, r |-> Report("registered", <<FirstMatch(w.registry, fp)>>,
                                   <<"hash", "lookup">>, <<>>, <<>>)]
       [] path_exists(content) /\ ~fault.read /\ HashMatches(w.registry, fp) = {} /\ fault.proof ->
            [w |-> w, r |-> Report("IOError", <<>>, <<"hash", "lookup", "local_proof">>, <<>>, <<>>)]
       [] path_exists(content) /\ ~fault.read /\ HashMatches(w.registry, fp) = {} /\ ~fault.proof
          /\ ts.raised ->
            [w |-> local, r |-> Report("Exception", <<>>,
                                       <<"hash", "lookup", "local_proof", "submit">>,
                                       <<fp>>, <<ts.caught>>)]
       [] OTHER ->
            [w |-> saved,
             r |-> Report(IF fault.save = "none" THEN "protected" ELSE "IOError",
                          IF fault.save = "none" THEN <<entry>> ELSE <<>>,
                          <<"hash", "lookup", "local_proof", "submit", "append", "save">>,
                          <<fp>>, <<ts.caught>>)]

\* ------------------------------------------------------- protect_directory
\* protect_directory: protect_file on each file the glob yields, in the
\* glob's order; an exception of one call is printed and the loop goes on.
\* The list returned holds the results of the calls that returned.
RECURSIVE protect_directory(_, _, _, _, _)
protect_directory(w, files, contents, faults, nets) ==
  IF files = <<>> THEN [w |-> w, r |-> Report("done", <<>>, <<>>, <<>>, <<>>)]
  ELSE LET one == protect_file(w, Head(files), contents[Head(files)], Head(faults), Head(nets))
           failed == one.r.outcome \notin {"protected", "registered"}
           rest == protect_directory(one.w, Tail(files), contents, Tail(faults), Tail(nets))
       IN [w |-> rest.w,
           r |-> [Report("done", one.r.ret \o rest.r.ret, one.r.events \o rest.r.events,
                         one.r.submitted \o rest.r.submitted, one.r.caught \o rest.r.caught)
                  EXCEPT !.printed = (IF failed THEN <<Head(files)>> ELSE <<>>) \o rest.r.printed]]

\* ------------------------------------------------------------ auto_protect
\* any(skip in str(html_file) for skip in [...]): the path names a service
\* directory.
SkipWords == {"node_modules", ".git", "__pycache__"}

IsSkipped(path) == path.dir \in SkipWords \/ path.stem \in SkipWords

\* What auto_protect lists for a file it protected.
ProtectedItem(path, entry) ==
  [file |-> PathName(path), id |-> entry.id, hash |-> HashPrefix(entry.hash)]

\* The loop of auto_protect over the files of the glob ("skipping": the
\* directory branch, which leaves service files out; the single-file branch
\* does not look at the name). A call that returns, with a new entry or with
\* the registered one, is listed as protected; one that raises, in errors.
RECURSIVE auto_protect_loop(_, _, _, _, _, _)
auto_protect_loop(w, files, contents, faults, nets, skipping) ==
  IF files = <<>> THEN [w |-> w, r |-> Report("done", <<>>, <<>>, <<>>, <<>>)]
  ELSE IF skipping /\ IsSkipped(Head(files))
  THEN LET rest == auto_protect_loop(w, Tail(files), contents, Tail(faults), Tail(nets), skipping)
       IN [w |-> rest.w, r |-> [rest.r EXCEPT !.skipped = <<Head(files)>> \o @]]
  ELSE LET one == protect_file(w, Head(files), contents[Head(files)], Head(faults), Head(nets))
           failed == one.r.outcome \notin {"protected", "registered"}
           rest == auto_protect_loop(one.w, Tail(files), contents, Tail(faults), Tail(nets), skipping)
       IN [w |-> rest.w,
           r |-> [Report("done", <<>>, one.r.events \o rest.r.events,
                         one.r.submitted \o rest.r.submitted, one.r.caught \o rest.r.caught)
                  EXCEPT !.protected = (IF failed THEN <<>>
                                        ELSE <<ProtectedItem(Head(files), one.r.ret[1])>>)
                                       \o rest.r.protected,
                         !.skipped = rest.r.skipped,
                         !.errors = (IF failed THEN <<PathName(Head(files))>> ELSE <<>>)
                                    \o rest.r.errors]]

\* auto_protect(path): a new CopyrightProtector (the ledger is loaded; a
\* ledger that cannot be parsed raises), then the loop.
auto_protect(w, files, contents, faults, nets, skipping) ==
  LET loaded == load_registry(w.disk)
  IN IF ~loaded.ok
     THEN [w |-> w, r |-> Report("JSONDecodeError", <<>>, <<"load">>, <<>>, <<>>)]
     ELSE auto_protect_loop([w EXCEPT !.registry = loaded.files], files, contents,
                            faults, nets, skipping)

\* ------------------------------------------------------------- verify_file
\* Mutant: verify_file ends with a _save_registry.
verify_file_saves(w, content, fault) ==
  [w |-> [w EXCEPT !.disk = save_registry(@, w.registry, "none")],
   r |-> Report("IOError", <<>>, <<"hash">>, <<>>, <<>>)]

\* verify_file: calculate_hash opens the file (an OSError if it cannot),
\* then the registry is searched for the hash.
verify_file(w, content, fault) ==
  LET fp == calculate_hash(content)
  IN CASE content = 0 \/ fault.read ->
            [w |-> w, r |-> Report("IOError", <<>>, <<"hash">>, <<>>, <<>>)]
       [] content # 0 /\ ~fault.read /\ HashMatches(w.registry, fp) # {} ->
            [w |-> w, r |-> Report("verified", <<FirstMatch(w.registry, fp)>>,
                                   <<"hash", "lookup">>, <<>>, <<>>)]
       [] OTHER ->
            [w |-> w, r |-> [Report("not_verified", <<>>, <<"hash", "lookup">>, <<>>, <<>>)
                             EXCEPT !.fp = <<fp>>]]

\* ---------------------------------------------------- export_proof_package
\* Mutant: the lookup tests e["id"] alone, so every entry matches.
IdMatches_any(files, id) == {i \in 1..Len(files) : files[i].id # 0}

\* for e in files: if e["id"] == file_id: entry = e; break
IdMatches(files, id) == {i \in 1..Len(files) : files[i].id = id}

FirstWithId(files, id) == CHOOSE i \in IdMatches(files, id) : \A j \in IdMatches(files, id) : i <= j

\* export_proof_package: the package directory is made, the LocalProof is
\* copied, then entry['proofs'].get('blockchain', {}).get('ots_file') is
\* evaluated: the key is there with the value None when the entry has no
\* receipt, so .get is called on None (AttributeError) before the summary.
export_proof_package(w, id) ==
  LET entry == w.registry[FirstWithId(w.registry, id)]
      proof == entry.proofs.local.proof_file
      receipt == entry.proofs.blockchain
  IN CASE IdMatches(w.registry, id) = {} ->
            [w |-> w, r |-> Report("ValueError", <<>>, <<"lookup">>, <<>>, <<>>)]
       [] IdMatches(w.registry, id) # {} /\ proof \notin w.proofFiles ->
            [w |-> w, r |-> Report("FileNotFoundError", <<>>, <<"lookup", "mkdir">>, <<>>, <<>>)]
       [] IdMatches(w.registry, id) # {} /\ proof \in w.proofFiles /\ receipt = <<>> ->
            [w |-> w, r |-> [Report("AttributeError", <<>>, <<"lookup", "mkdir", "copy_proof">>,
                                    <<>>, <<>>)
                             EXCEPT !.package = {"proof"}]]
       [] IdMatches(w.registry, id) # {} /\ proof \in w.proofFiles /\ receipt # <<>>
          /\ receipt[1].ots_file \notin w.otsFiles ->
            [w |-> w, r |-> [Report("FileNotFoundError", <<>>, <<"lookup", "mkdir", "copy_proof">>,
                                    <<>>, <<>>)
                             EXCEPT !.package = {"proof"}]]
       [] OTHER ->
            [w |-> w, r |-> [Report("exported", <<entry>>,
                                    <<"lookup", "mkdir", "copy_proof", "copy_ots", "summary">>,
                                    <<>>, <<>>)
                             EXCEPT !.package = {"proof", "ots", "SUMMARY"}]]

\* ----------------------------------------------------- retry_pending_files
\* entry["proofs"].get("blockchain") is None
IsPending(entry) == entry.proofs.blockchain = <<>>

\* Mutant: the pass retries every entry, with or without a receipt.
PendingOf_all(files) == files

\* list of the entries without a receipt, in the registry's order
PendingOf(files) == SelectSeq(files, IsPending)

\* Mutant: the receipt goes to the first entry of the registry.
update_anchor_first(files, id, receipt) ==
  IF files = <<>> THEN files ELSE [files EXCEPT ![1].proofs.blockchain = receipt]

\* Mutant: the update also rewrites the entry's status.
update_anchor_status(files, id, receipt) ==
  [i \in 1..Len(files) |->
     IF files[i].id = id
     THEN [files[i] EXCEPT !.proofs.blockchain = receipt, !.status = "anchored"]
     ELSE files[i]]

\* Mutant: the update rebuilds the list and keeps only the new receipt.
update_anchor_reset_others(files, id, receipt) ==
  [i \in 1..Len(files) |->
     [files[i] EXCEPT !.proofs.blockchain = IF files[i].id = id THEN receipt ELSE <<>>]]

\* Mutant: the receipt of a successful submission is not stored.
update_anchor_none(files, id, receipt) == files

\* Mutant: the receipt goes to the most recent entry.
update_anchor_last(files, id, receipt) ==
  IF files = <<>> THEN files ELSE [files EXCEPT ![Len(files)].proofs.blockchain = receipt]

\* for i, e in enumerate(files): if e["id"] == entry["id"]:
\*     files[i]["proofs"]["blockchain"] = result; break
update_anchor(files, id, receipt) ==
  IF IdMatches(files, id) = {} THEN files
  ELSE [files EXCEPT ![FirstWithId(files, id)].proofs.blockchain = receipt]

\* Mutant: the loop ends at the first submission that fails.
RECURSIVE retry_loop_break(_, _, _, _)
retry_loop_break(files, ots, pending, nets) ==
  IF pending = <<>> THEN [files |-> files, otsFiles |-> ots, submitted |-> <<>>,
                          caught |-> <<>>, raised |-> FALSE]
  ELSE LET entry == Head(pending)
           ts == create_timestamp_opentimestamps(ots, entry.hash, PathStem(entry.file_name),
                                                 Head(nets))
           rest == retry_loop_break(update_anchor(files, entry.id, ts.receipt), ts.otsFiles,
                                    Tail(pending), Tail(nets))
       IN IF ts.receipt = <<>>
          THEN [files |-> files, otsFiles |-> ots, submitted |-> <<entry.hash>>,
                caught |-> <<ts.caught>>, raised |-> FALSE]
          ELSE [rest EXCEPT !.submitted = <<entry.hash>> \o @, !.caught = <<ts.caught>> \o @]

\* the loop over pending: one submission each, the receipt stored on success
RECURSIVE retry_loop(_, _, _, _)
retry_loop(files, ots, pending, nets) ==
  IF pending = <<>> THEN [files |-> files, otsFiles |-> ots, submitted |-> <<>>,
                          caught |-> <<>>, raised |-> FALSE]
  ELSE LET entry == Head(pending)
           ts == create_timestamp_opentimestamps(ots, entry.hash, PathStem(entry.file_name),
                                                 Head(nets))
           updated == IF ts.receipt # <<>> THEN update_anchor(files, entry.id, ts.receipt)
                      ELSE files
           rest == retry_loop(updated, ts.otsFiles, Tail(pending), Tail(nets))
       IN IF ts.raised
          THEN [files |-> files, otsFiles |-> ots, submitted |-> <<entry.hash>>,
                caught |-> <<ts.caught>>, raised |-> TRUE]
          ELSE [rest EXCEPT !.submitted = <<entry.hash>> \o @, !.caught = <<ts.caught>> \o @]

\* Mutant: the ledger is rewritten after every submission; the fault meets
\* the last rewrite.
retry_pending_files_save_each(w, nets, fault) ==
  LET loaded == load_registry(w.disk)
      pending == PendingOf(loaded.files)
      loop == retry_loop(loaded.files, w.otsFiles, pending, nets)
      butLast == retry_loop(loaded.files, w.otsFiles, SubSeq(pending, 1, Len(pending) - 1), nets)
  IN CASE ~loaded.ok ->
            [w |-> w, r |-> Report("JSONDecodeError", <<>>, <<"load">>, <<>>, <<>>)]
       [] loaded.ok /\ pending = <<>> ->
            [w |-> [w EXCEPT !.registry = loaded.files],
             r |-> Report("nothing_pending", <<>>, <<"load">>, <<>>, <<>>)]
       [] OTHER ->
            [w |-> [w EXCEPT !.registry = loop.files, !.otsFiles = loop.otsFiles,
                             !.disk = save_registry(FileWith(json_dump(butLast.files)),
                                                    loop.files, fault.save)],
             r |-> Report(IF fault.save = "none" THEN "done" ELSE "IOError", <<>>,
                          <<"load">> \o [i \in 1..(2 * Len(pending)) |->
                                           IF i % 2 = 1 THEN "submit" ELSE "save"],
                          loop.submitted, loop.caught)]

\* retry_pending_files: a CopyrightProtector of its own is made on the
\* storage directory (the ledger is loaded) and is from then on the
\* instance in use; the pending entries are retried, and the ledger is saved
\* once after the loop.
retry_pending_files(w, nets, fault) ==
  LET loaded == load_registry(w.disk)
      pending == PendingOf(loaded.files)
      loop == retry_loop(loaded.files, w.otsFiles, pending, nets)
  IN CASE ~loaded.ok ->
            [w |-> w, r |-> Report("JSONDecodeError", <<>>, <<"load">>, <<>>, <<>>)]
       [] loaded.ok /\ pending = <<>> ->
            [w |-> [w EXCEPT !.registry = loaded.files],
             r |-> Report("nothing_pending", <<>>, <<"load">>, <<>>, <<>>)]
       [] loaded.ok /\ pending # <<>> /\ loop.raised ->
            [w |-> [w EXCEPT !.registry = loop.files, !.otsFiles = loop.otsFiles],
             r |-> Report("Exception", <<>>,
                          <<"load">> \o [i \in 1..Len(loop.submitted) |-> "submit"],
                          loop.submitted, loop.caught)]
       [] OTHER ->
            [w |-> [w EXCEPT !.registry = loop.files, !.otsFiles = loop.otsFiles,
                             !.disk = save_registry(@, loop.files, fault.save)],
             r |-> Report(IF fault.save = "none" THEN "done" ELSE "IOError", <<>>,
                          <<"load">> \o [i \in 1..Len(loop.submitted) |-> "submit"] \o <<"save">>,
                          loop.submitted, loop.caught)]

\* ------------------------------------------------------------------ state
VARIABLES
  fs,          \* the callers' source files: path -> content (0: no file)
  registry,    \* self.registry["files"] of the CopyrightProtector in use
  disk,        \* registry.json
  proofFiles,  \* LocalProof documents in proofs/
  rewritten,   \* LocalProof documents written over an earlier one
  otsFiles,    \* anchor artifacts in proofs/
  proc,        \* the process: "up", "saving" (inside _save_registry),
               \* "killed" / "killed_saving" (interrupted, outside / inside it)
  wbuf,        \* the text _save_registry is writing
  wold,        \* registry.json as it was when _save_registry opened it
  registry2    \* self.registry["files"] of a second CopyrightProtector, in
               \* another process on the same storage directory

vars == <<fs, registry, disk, proofFiles, rewritten, otsFiles, proc, wbuf, wold, registry2>>

TheWorld == World(registry, disk, proofFiles, rewritten, otsFiles)

SetWorld(w) ==
  /\ registry' = w.registry
  /\ disk' = w.disk
  /\ proofFiles' = w.proofFiles
  /\ rewritten' = w.rewritten
  /\ otsFiles' = w.otsFiles

\* CopyrightProtector.__init__ on an empty storage directory.
Init ==
  /\ fs = [p \in Paths |-> 0]
  /\ registry = <<>>
  /\ disk = NoFile
  /\ proofFiles = {}
  /\ rewritten = {}
  /\ otsFiles = {}
  /\ proc = "up"
  /\ wbuf = <<>>
  /\ wold = NoFile
  /\ registry2 = <<>>

\* ------------------------------------------------------------- the callers
\* A caller writes a source file (creates it or changes its content).
WriteFile(p, c) ==
  /\ fs[p] # c
  /\ fs' = [fs EXCEPT ![p] = c]
  /\ UNCHANGED <<registry, disk, proofFiles, rewritten, otsFiles, proc, wbuf, wold, registry2>>

\* A caller removes a source file.
DeleteFile(p) ==
  /\ fs[p] # 0
  /\ fs' = [fs EXCEPT ![p] = 0]
  /\ UNCHANGED <<registry, disk, proofFiles, rewritten, otsFiles, proc, wbuf, wold, registry2>>

\* -------------------------------------------------------------- operations
\* A new CopyrightProtector on the storage directory: the ledger is loaded.
Open ==
  /\ proc = "up"
  /\ load_registry(disk).ok
  /\ registry' = load_registry(disk).files
  /\ UNCHANGED <<fs, disk, proofFiles, rewritten, otsFiles, proc, wbuf, wold, registry2>>

ProtectFile(p, fault, net) ==
  /\ proc = "up"
  /\ SetWorld(protect_file(TheWorld, p, fs[p], fault, net).w)
  /\ UNCHANGED <<fs, proc, wbuf, wold, registry2>>

\* The files of the directory that exist, in every order a glob can yield.
GlobOrders(dir) ==
  LET found == {p \in Paths : p.dir = dir /\ fs[p] # 0}
  IN {order \in [1..Cardinality(found) -> found] :
        \A i, j \in 1..Cardinality(found) : i # j => order[i] # order[j]}

ProtectDirectory(dir, order, faults, nets) ==
  /\ proc = "up"
  /\ SetWorld(protect_directory(TheWorld, order, fs, faults, nets).w)
  /\ UNCHANGED <<fs, proc, wbuf, wold, registry2>>

VerifyFile(p, fault) ==
  /\ proc = "up"
  /\ SetWorld(verify_file(TheWorld, fs[p], fault).w)
  /\ UNCHANGED <<fs, proc, wbuf, wold, registry2>>

ExportProofPackage(id) ==
  /\ proc = "up"
  /\ SetWorld(export_proof_package(TheWorld, id).w)
  /\ UNCHANGED <<fs, proc, wbuf, wold, registry2>>

RetryPendingFiles(nets, fault) ==
  /\ proc = "up"
  /\ SetWorld(retry_pending_files(TheWorld, nets, fault).w)
  /\ UNCHANGED <<fs, proc, wbuf, wold, registry2>>

\* auto_protect on a directory.
AutoProtectDirectory(dir, order, faults, nets) ==
  /\ proc = "up"
  /\ SetWorld(auto_protect(TheWorld, order, fs, faults, nets, TRUE).w)
  /\ UNCHANGED <<fs, proc, wbuf, wold, registry2>>

\* auto_protect on a single file.
AutoProtectFile(p, fault, net) ==
  /\ proc = "up"
  /\ path_exists(fs[p])
  /\ SetWorld(auto_protect(TheWorld, <<p>>, fs, <<fault>>, <<net>>, FALSE).w)
  /\ UNCHANGED <<fs, proc, wbuf, wold, registry2>>

\* The ids a caller may ask for: those in use and one that is not.
Ids == 1..(MaxContent + 1)

\* The anchor outcomes of one retry pass, one per pending entry.
RetryNets == [1..Len(PendingOf(load_registry(disk).files)) -> AnchorOutcomes]

\* ----------------------------------------------------------- specification
\* One process, one caller at a time; source files may be unreadable, the
\* storage directory is written without faults.
Next ==
  \/ \E p \in Paths, c \in Contents : WriteFile(p, c)
  \/ \E p \in Paths : DeleteFile(p)
  \/ Open
  \/ \E p \in Paths, fault \in ReadFaults, net \in AnchorOutcomes : ProtectFile(p, fault, net)
  \/ \E dir \in Dirs : \E order \in GlobOrders(dir) :
       \E faults \in [1..Len(order) -> ReadFaults], nets \in [1..Len(order) -> AnchorOutcomes] :
         ProtectDirectory(dir, order, faults, nets)
  \/ \E p \in Paths, fault \in ReadFaults : VerifyFile(p, fault)
  \/ \E id \in Ids : ExportProofPackage(id)
  \/ \E nets \in RetryNets : RetryPendingFiles(nets, NoFault)
  \/ \E dir \in Dirs : \E order \in GlobOrders(dir) :
       \E faults \in [1..Len(order) -> ReadFaults], nets \in [1..Len(order) -> AnchorOutcomes] :
         AutoProtectDirectory(dir, order, faults, nets)
  \/ \E p \in Paths, fault \in ReadFaults, net \in AnchorOutcomes : AutoProtectFile(p, fault, net)

Spec == Init /\ [][Next]_vars

\* A retry pass in which the submission for the pending entry of the given
\* fingerprint succeeds.
RetryAnchors(fp) ==
  \E nets \in RetryNets :
    /\ \E k \in 1..Len(PendingOf(load_registry(disk).files)) :
         PendingOf(load_registry(disk).files)[k].hash = fp /\ nets[k] = "ok"
    /\ RetryPendingFiles(nets, NoFault)

\* The operations of the runs in which retry passes keep being made.
NextLive ==
  \/ \E p \in Paths, c \in Contents : WriteFile(p, c)
  \/ \E p \in Paths, net \in AnchorOutcomes : ProtectFile(p, NoFault, net)
  \/ \E nets \in RetryNets : RetryPendingFiles(nets, NoFault)

\* ENABLED <<RetryAnchors(fp)>>_vars: a pass in which the submission for
\* the pending entry of that fingerprint succeeds can be run and changes
\* something.
RetryAnchorsEnabled(fp) ==
  /\ proc = "up"
  /\ \E nets \in RetryNets :
       /\ \E k \in 1..Len(PendingOf(load_registry(disk).files)) :
            PendingOf(load_registry(disk).files)[k].hash = fp /\ nets[k] = "ok"
       /\ retry_pending_files(TheWorld, nets, NoFault).w # TheWorld

\* Weak fairness of RetryAnchors(fp): WF_vars(RetryAnchors(fp)) written out
\* by its definition, with the enabling condition as a state predicate.
RetryFairness(fp) ==
  \/ []<>(~RetryAnchorsEnabled(fp))
  \/ []<><<RetryAnchors(fp)>>_vars

\* RetryAnchorsEnabled is the enabling condition of the pass (an invariant
\* of the runs without fairness).
RetryAnchorsEnabledExact ==
  \A c \in Contents :
    (ENABLED <<RetryAnchors(calculate_hash(c))>>_vars) <=> RetryAnchorsEnabled(calculate_hash(c))

\* The single-writer runs in which retry_pending_files is run again and
\* again and the anchor service does not fail for ever on any entry.
SpecLive ==
  Init /\ [][NextLive]_vars /\ \A c \in Contents : RetryFairness(calculate_hash(c))

\* The faults of the storage directory, one per call: the LocalProof cannot
\* be written, the write of registry.json is refused, or it stops part-way.
DiskFaults ==
  {NoFault, [NoFault EXCEPT !.proof = TRUE],
   [NoFault EXCEPT !.save = "denied"], [NoFault EXCEPT !.save = "nospace"]}

\* The source files written in the runs with disk faults.
FaultPaths == {PathA}

\* One process, one caller at a time, on a storage directory that may fail.
NextFault ==
  \/ \E p \in FaultPaths, c \in Contents : WriteFile(p, c)
  \/ Open
  \/ \E p \in Paths, fault \in DiskFaults, net \in AnchorOutcomes : ProtectFile(p, fault, net)
  \/ \E dir \in Dirs : \E order \in GlobOrders(dir) :
       \E faults \in [1..Len(order) -> DiskFaults], nets \in [1..Len(order) -> AnchorOutcomes] :
         ProtectDirectory(dir, order, faults, nets)
  \/ \E nets \in RetryNets, fault \in DiskFaults : RetryPendingFiles(nets, fault)

SpecFault == Init /\ [][NextFault]_vars

\* -------------------------------------------------------- two processes
\* A second process makes its CopyrightProtector on the same storage
\* directory: the ledger is loaded into its own registry.
Open2 ==
  /\ proc = "up"
  /\ load_registry(disk).ok
  /\ registry2' = load_registry(disk).files
  /\ UNCHANGED <<fs, registry, disk, proofFiles, rewritten, otsFiles, proc, wbuf, wold>>

\* The world as the second process has it.
TheWorld2 == World(registry2, disk, proofFiles, rewritten, otsFiles)

\* protect_file in the second process: the same files, its own registry.
ProtectFile2(p, fault, net) ==
  /\ proc = "up"
  /\ LET w == protect_file(TheWorld2, p, fs[p], fault, net).w
     IN /\ registry2' = w.registry
        /\ disk' = w.disk
        /\ proofFiles' = w.proofFiles
        /\ rewritten' = w.rewritten
        /\ otsFiles' = w.otsFiles
  /\ UNCHANGED <<fs, registry, proc, wbuf, wold>>

\* The source files written in the runs with two processes.
ConcPaths == {PathA}

\* The anchor service answers or cannot be reached.
ConcOutcomes == {"ok", "url_error"}

\* Two processes on one storage directory, nothing locked: each holds the
\* registry it loaded and rewrites the whole ledger from it.
NextConc ==
  \/ \E p \in ConcPaths, c \in Contents : WriteFile(p, c)
  \/ Open
  \/ Open2
  \/ \E p \in Paths, net \in ConcOutcomes : ProtectFile(p, NoFault, net)
  \/ \E p \in Paths, net \in ConcOutcomes : ProtectFile2(p, NoFault, net)
  \/ \E nets \in RetryNets : RetryPendingFiles(nets, NoFault)

SpecConc == Init /\ [][NextConc]_vars

\* ------------------------------------------------- interrupted processes
\* _save_registry step by step: open(registry_file, 'w') empties the file,
\* json.dump writes the text piece by piece, the with block closes the file.
\* The call's other effects (the proof files, the entry in memory) are done
\* before _save_registry starts.
StartSave(w) ==
  /\ registry' = w.registry
  /\ proofFiles' = w.proofFiles
  /\ rewritten' = w.rewritten
  /\ otsFiles' = w.otsFiles
  /\ wold' = disk
  /\ wbuf' = w.disk.text
  /\ disk' = FileWith(<<>>)
  /\ proc' = "saving"
  /\ UNCHANGED registry2

\* Whether a call reached _save_registry.
Saves(r) == r.events # <<>> /\ r.events[Len(r.events)] = "save"

\* protect_file up to the open() of _save_registry (or to its return, when
\* the call does not save).
ProtectFileSteps(p, net) ==
  /\ proc = "up"
  /\ LET res == protect_file(TheWorld, p, fs[p], NoFault, net)
     IN IF Saves(res.r) THEN StartSave(res.w)
        ELSE SetWorld(res.w) /\ UNCHANGED <<proc, wbuf, wold, registry2>>
  /\ UNCHANGED fs

\* retry_pending_files up to the open() of _save_registry.
RetryPendingFilesSteps(nets) ==
  /\ proc = "up"
  /\ LET res == retry_pending_files(TheWorld, nets, NoFault)
     IN IF Saves(res.r) THEN StartSave(res.w)
        ELSE SetWorld(res.w) /\ UNCHANGED <<proc, wbuf, wold, registry2>>
  /\ UNCHANGED fs

\* json.dump writes the next piece; after the last one the file is closed
\* and the call returns.
WriteChunk ==
  /\ proc = "saving"
  /\ Len(disk.text) < Len(wbuf)
  /\ disk' = FileWith(Append(disk.text, wbuf[Len(disk.text) + 1]))
  /\ proc' = IF Len(disk.text) + 1 = Len(wbuf) THEN "up" ELSE "saving"
  /\ UNCHANGED <<fs, registry, proofFiles, rewritten, otsFiles, wbuf, wold, registry2>>

\* The process is interrupted (killed, power loss): its memory is gone, the
\* files are as they were written so far.
Interrupt ==
  /\ proc \in {"up", "saving"}
  /\ proc' = IF proc = "saving" THEN "killed_saving" ELSE "killed"
  /\ registry' = <<>>
  /\ UNCHANGED <<fs, disk, proofFiles, rewritten, otsFiles, wbuf, wold, registry2>>

\* A new process opens the storage directory: __init__ loads the ledger, or
\* raises json's error and no instance exists.
Restart ==
  /\ proc \in {"killed", "killed_saving"}
  /\ load_registry(disk).ok
  /\ proc' = "up"
  /\ registry' = load_registry(disk).files
  /\ UNCHANGED <<fs, disk, proofFiles, rewritten, otsFiles, wbuf, wold, registry2>>

NextCrash ==
  \/ \E p \in Paths, c \in Contents : WriteFile(p, c)
  \/ \E p \in Paths, net \in AnchorOutcomes : ProtectFileSteps(p, net)
  \/ \E nets \in RetryNets : RetryPendingFilesSteps(nets)
  \/ WriteChunk
  \/ Interrupt
  \/ Restart

SpecCrash == Init /\ [][NextCrash]_vars

\* ================================================================= claims
\* The ledger as a new CopyrightProtector would load it.
Persisted == load_registry(disk).files

Hashes(files) == {files[i].hash : i \in 1..Len(files)}

UniqueHashes(files) ==
  \A i, j \in 1..Len(files) : i # j => files[i].hash # files[j].hash

AllOk(n) == [i \in 1..n |-> "ok"]

\* C1: protect_file on a readable file whose fingerprint is that of an
\* entry of the registry returns that entry (so the same id), whatever the
\* file's path and whatever the anchor service would answer, and leaves the
\* registry (every entry, every field), the ledger and the proofs
\* directory as they were; no submission is made.
C1_ProtectIdempotentOnContent ==
  \A p \in Paths, net \in AnchorOutcomes :
    LET res == protect_file(TheWorld, p, fs[p], NoFault, net)
    IN \A i \in 1..Len(registry) :
         (fs[p] # 0 /\ registry[i].hash = calculate_hash(fs[p]))
         => /\ res.r.outcome = "registered"
            /\ res.r.ret = <<registry[i]>>
            /\ res.r.ret[1].id = registry[i].id
            /\ res.w.registry = registry
            /\ Len(res.w.registry) = Len(registry)
            /\ res.w = TheWorld
            /\ res.r.submitted = <<>>

\* Witness of C1: two entries are registered, and a file at another path
\* than the one an entry was registered from holds that entry's bytes;
\* protect_file on it returns the entry.
C1_Witness ==
  /\ Len(registry) >= 2
  /\ \E p \in Paths, i \in 1..Len(registry) :
       /\ fs[p] # 0
       /\ registry[i].hash = calculate_hash(fs[p])
       /\ registry[i].original_path # p
       /\ registry[i].file_name # PathName(p)
       /\ protect_file(TheWorld, p, fs[p], NoFault, "ok").r.ret = <<registry[i]>>

\* C2: no two entries of the registry in memory, and no two entries of the
\* persisted ledger, have the same hash.
C2_UniqueByFingerprint ==
  /\ UniqueHashes(registry)
  /\ load_registry(disk).ok
  /\ UniqueHashes(Persisted)

\* Witness of C2: every content is registered, and both files hold the same
\* registered content (so it was offered again after its registration).
C2_Witness ==
  /\ Len(registry) = MaxContent
  /\ Len(Persisted) = MaxContent
  /\ fs[PathA] # 0
  /\ fs[PathA] = fs[PathB]
  /\ \E i \in 1..Len(registry) : registry[i].hash = calculate_hash(fs[PathA])

\* C3: protect_file of new content whose anchor submission fails (either
\* except clause) does not fail: it returns a new entry, appended to the
\* registry and persisted, with no blockchain proof, with its local proof
\* written, and with status "protected".
C3_AnchorAbsentTolerated ==
  \A p \in Paths, net \in AnchorOutcomes \ {"ok"} :
    LET res == protect_file(TheWorld, p, fs[p], NoFault, net)
    IN (fs[p] # 0 /\ calculate_hash(fs[p]) \notin Hashes(registry))
       => /\ res.r.outcome = "protected"
          /\ Len(res.r.ret) = 1
          /\ res.r.ret[1].proofs.blockchain = <<>>
          /\ res.r.ret[1].proofs.local.proof_file \in res.w.proofFiles
          /\ res.r.ret[1].status = "protected"
          /\ res.r.ret[1].hash = calculate_hash(fs[p])
          /\ res.w.registry = Append(registry, res.r.ret[1])
          /\ load_registry(res.w.disk).ok
          /\ load_registry(res.w.disk).files = res.w.registry

\* Witness of C3: an entry protected while the anchor service failed is in
\* the registry and in the ledger, its local proof is in the proofs
\* directory, and another new content is at hand.
C3_Witness ==
  /\ \E i \in 1..Len(registry) :
       /\ registry[i].proofs.blockchain = <<>>
       /\ registry[i].proofs.local.proof_file \in proofFiles
       /\ registry[i].status = "protected"
       /\ Persisted[i] = registry[i]
  /\ \E p \in Paths : fs[p] # 0 /\ calculate_hash(fs[p]) \notin Hashes(registry)

\* C4: a retry pass in which every submission succeeds, on a ledger with at
\* least one entry without a receipt, ends with a receipt on each of those
\* entries in the persisted ledger (which was rewritten), none left pending.
C4_RetryConvergence ==
  LET old == Persisted
      res == retry_pending_files(TheWorld, AllOk(Len(PendingOf(old))), NoFault)
      new == load_registry(res.w.disk).files
  IN Len(PendingOf(old)) >= 1
     => /\ res.r.outcome = "done"
        /\ Saves(res.r)
        /\ load_registry(res.w.disk).ok
        /\ Len(new) = Len(old)
        /\ \A i \in 1..Len(old) :
             IsPending(old[i]) => /\ new[i].id = old[i].id
                                  /\ new[i].hash = old[i].hash
                                  /\ ~IsPending(new[i])
        /\ PendingOf(new) = <<>>
        /\ Len(res.r.submitted) = Len(PendingOf(old))

\* Witness of C4: the ledger holds two or more entries without a receipt,
\* and the pass with every submission succeeding leaves none.
C4_Witness ==
  /\ Len(PendingOf(Persisted)) >= 2
  /\ PendingOf(load_registry(retry_pending_files(TheWorld, AllOk(Len(PendingOf(Persisted))),
                                                 NoFault).w.disk).files) = <<>>

\* C5: verify_file on a readable file answers "verified", with the entry of
\* the registry whose hash is the file's fingerprint, exactly when there is
\* such an entry; otherwise it answers "not verified" with the file's
\* fingerprint, which is the hash of no entry.
C5_VerifyCorrect ==
  \A p \in Paths :
    LET fp == calculate_hash(fs[p])
        res == verify_file(TheWorld, fs[p], NoFault)
    IN fs[p] # 0
       => /\ res.r.outcome \in {"verified", "not_verified"}
          /\ res.r.outcome = "verified" <=> \E i \in 1..Len(registry) : registry[i].hash = fp
          /\ res.r.outcome = "verified"
             => /\ Len(res.r.ret) = 1
                /\ res.r.ret[1].hash = fp
                /\ \E i \in 1..Len(registry) : registry[i] = res.r.ret[1]
          /\ res.r.outcome = "not_verified"
             => /\ res.r.ret = <<>>
                /\ res.r.fp = <<fp>>
                /\ \A i \in 1..Len(registry) : registry[i].hash # res.r.fp[1]

\* Witness of C5: a file was protected and its content then changed to one
\* that is not registered (verify_file answers "not verified"), while
\* another file holds the protected bytes (verify_file answers "verified"
\* with the entry).
C5_Witness ==
  \E p, q \in Paths, i \in 1..Len(registry) :
    /\ fs[p] # 0
    /\ registry[i].original_path = p
    /\ verify_file(TheWorld, fs[p], NoFault).r.outcome = "not_verified"
    /\ fs[q] # 0
    /\ verify_file(TheWorld, fs[q], NoFault).r.ret = <<registry[i]>>

\* C6: a verify_file step, whatever its outcome (verified, not verified, the
\* file missing or unreadable), changes neither the registry in memory, nor
\* the ledger, nor the proofs directory, and makes no submission.
C6_VerifyNeverMutates ==
  [][(\E p \in Paths, fault \in ReadFaults : VerifyFile(p, fault))
     => /\ UNCHANGED <<registry, disk, proofFiles, rewritten, otsFiles>>
        /\ \A q \in Paths, f \in ReadFaults :
             verify_file(TheWorld, fs[q], f).r.submitted = <<>>]_vars

\* Witness of C6: a state in which verify_file has each of its outcomes: a
\* registered file, an unregistered one, and (any file) a failing read.
C6_Witness ==
  \E p, q \in Paths :
    /\ verify_file(TheWorld, fs[p], NoFault).r.outcome = "verified"
    /\ verify_file(TheWorld, fs[q], NoFault).r.outcome = "not_verified"
    /\ verify_file(TheWorld, fs[p], [NoFault EXCEPT !.read = TRUE]).r.outcome = "IOError"
    /\ Len(registry) >= 1
    /\ disk.exists

\* C7: protecting two files of different contents one after the other (in
\* either order, whatever the anchor service answers) gives two entries,
\* both in the registry, with different ids and different hashes; from a
\* registry that holds neither content, the two entries are new ones.
C7_Distinctness ==
  \A p, q \in Paths, n1, n2 \in AnchorOutcomes :
    LET first == protect_file(TheWorld, p, fs[p], NoFault, n1)
        second == protect_file(first.w, q, fs[q], NoFault, n2)
        neither == {calculate_hash(fs[p]), calculate_hash(fs[q])} \cap Hashes(registry) = {}
    IN (fs[p] # 0 /\ fs[q] # 0 /\ fs[p] # fs[q])
       => /\ Len(first.r.ret) = 1 /\ Len(second.r.ret) = 1
          /\ first.r.ret[1].id # second.r.ret[1].id
          /\ first.r.ret[1].hash # second.r.ret[1].hash
          /\ \E i, j \in 1..Len(second.w.registry) :
               /\ i # j
               /\ second.w.registry[i] = first.r.ret[1]
               /\ second.w.registry[j] = second.r.ret[1]
          /\ neither => /\ Len(second.w.registry) = Len(registry) + 2
                        /\ first.r.outcome = "protected"
                        /\ second.r.outcome = "protected"

\* Witness of C7: two files of different contents, neither registered, and
\* the two protect_file calls give entries of different ids.
C7_Witness ==
  \E p, q \in Paths :
    /\ fs[p] # 0 /\ fs[q] # 0 /\ fs[p] # fs[q]
    /\ {calculate_hash(fs[p]), calculate_hash(fs[q])} \cap Hashes(registry) = {}
    /\ LET first == protect_file(TheWorld, p, fs[p], NoFault, "ok")
           second == protect_file(first.w, q, fs[q], NoFault, "url_error")
       IN /\ first.r.ret[1].id = Len(registry) + 1
          /\ second.r.ret[1].id = Len(registry) + 2

\* C8: the entry at position i of the registry has id i (so ids are unique,
\* 1-based and in insertion order), in memory and in the persisted ledger,
\* and the entry protect_file appends gets the id (entries before) + 1.
C8_SequentialIds ==
  /\ \A i \in 1..Len(registry) : registry[i].id = i
  /\ \A i \in 1..Len(Persisted) : Persisted[i].id = i
  /\ \A p \in Paths, net \in AnchorOutcomes :
       LET res == protect_file(TheWorld, p, fs[p], NoFault, net)
       IN res.r.outcome = "protected"
          => /\ res.r.ret[1].id = Len(registry) + 1
             /\ res.w.registry[Len(registry) + 1] = res.r.ret[1]
             /\ \A i \in 1..Len(registry) : registry[i].id # res.r.ret[1].id

\* Witness of C8: every content is registered (ids 1..MaxContent), the
\* first entry has id 1.
C8_Witness ==
  /\ Len(registry) = MaxContent
  /\ registry[1].id = 1
  /\ registry[MaxContent].id = MaxContent
  /\ Persisted = registry

\* C9: a retry pass, whatever the outcome of each submission, leaves the
\* persisted entries' number, order, ids and hashes as they were: an entry
\* that had a receipt is unchanged, and an entry that was pending is
\* unchanged but for its proofs.blockchain.
C9_RetryFrame ==
  \A nets \in RetryNets :
    LET old == Persisted
        res == retry_pending_files(TheWorld, nets, NoFault)
        new == load_registry(res.w.disk).files
    IN /\ load_registry(res.w.disk).ok
       /\ Len(new) = Len(old)
       /\ \A i \in 1..Len(old) :
            /\ new[i].id = old[i].id
            /\ new[i].hash = old[i].hash
            /\ new[i] = [old[i] EXCEPT !.proofs.blockchain = new[i].proofs.blockchain]
            /\ ~IsPending(old[i]) => new[i] = old[i]
       /\ res.w.registry = new

\* Witness of C9: the ledger holds an entry with a receipt and a pending
\* one; a pass in which the submission succeeds changes the pending entry.
C9_Witness ==
  /\ Len(Persisted) >= 2
  /\ \E i, j \in 1..Len(Persisted) :
       /\ ~IsPending(Persisted[i])
       /\ IsPending(Persisted[j])
       /\ LET new == load_registry(retry_pending_files(TheWorld, AllOk(Len(PendingOf(Persisted))),
                                                       NoFault).w.disk).files
          IN new[j] # Persisted[j] /\ new[i] = Persisted[i]

\* C10 (as claimed): a process interrupted inside _save_registry leaves
\* registry.json as it was before the call or as the call would have left
\* it, and in either case a file the next CopyrightProtector can load.
C10_AtomicPersist ==
  proc = "killed_saving"
  => /\ disk \in {wold, FileWith(wbuf)}
     /\ load_registry(disk).ok

\* ------------------------------------------------------------------ C11..C20
\* Memory and ledger disagree: registry.json cannot be loaded, or it holds
\* other entries than the instance's registry.
Desynchronized(w) ==
  \/ ~load_registry(w.disk).ok
  \/ load_registry(w.disk).files # w.registry

\* The call ended in an exception that reached its caller.
ReportsFailure(r) == r.outcome \notin {"protected", "registered", "done", "nothing_pending"}

\* C11 (as claimed): a failed rewrite of registry.json is reported to the
\* caller as a failure, and no call on the instance reports success while
\* the instance's registry and the persisted ledger disagree: a call of
\* protect_file, protect_directory or retry_pending_files that leaves the
\* two in disagreement (or finds them so) ends in a reported failure.
C11_PersistFailureSurfaced ==
  /\ \A p \in Paths, fault \in DiskFaults, net \in AnchorOutcomes :
       LET res == protect_file(TheWorld, p, fs[p], fault, net)
       IN Desynchronized(res.w) => ReportsFailure(res.r)
  /\ \A dir \in Dirs : \A order \in GlobOrders(dir) :
       \A faults \in [1..Len(order) -> DiskFaults], nets \in [1..Len(order) -> AnchorOutcomes] :
         LET res == protect_directory(TheWorld, order, fs, faults, nets)
         IN Desynchronized(res.w) => ReportsFailure(res.r)
  /\ \A nets \in RetryNets, fault \in DiskFaults :
       LET res == retry_pending_files(TheWorld, nets, fault)
       IN Desynchronized(res.w) => ReportsFailure(res.r)

\* C12: protect_file on a path where no file exists raises the not-found
\* error before any other step: whatever faults and anchor outcome the call
\* would have met, nothing was hashed, looked up or submitted, and the
\* registry, the ledger and the proofs directory are as they were.
C12_MissingFileFailsFirst ==
  \A p \in Paths, fault \in Faults, net \in AnchorOutcomes :
    fs[p] = 0
    => LET res == protect_file(TheWorld, p, fs[p], fault, net)
       IN /\ res.r.outcome = "FileNotFoundError"
          /\ res.r.events = <<>>
          /\ res.r.submitted = <<>>
          /\ res.r.ret = <<>>
          /\ res.w = TheWorld

\* Witness of C12: a registry with an entry, and a path whose file is gone:
\* protect_file on it raises the not-found error.
C12_Witness ==
  /\ registry # <<>>
  /\ \E p \in Paths :
       /\ fs[p] = 0
       /\ \E i \in 1..Len(registry) : registry[i].original_path = p
       /\ protect_file(TheWorld, p, fs[p], NoFault, "ok").r.outcome = "FileNotFoundError"

\* C13: a protect_file call that cannot read the source file, or cannot
\* write the LocalProof, raises the error to its caller and leaves the
\* registry as it was: no entry is appended, registry.json is not rewritten
\* and nothing is submitted to the anchor service.
C13_ReadOrProofFailureIsFatal ==
  \A p \in Paths, fault \in Faults, net \in AnchorOutcomes :
    LET res == protect_file(TheWorld, p, fs[p], fault, net)
        isNew == HashMatches(registry, calculate_hash(fs[p])) = {}
    IN fs[p] # 0 /\ (fault.read \/ (fault.proof /\ isNew))
       => /\ res.r.outcome = "IOError"
          /\ res.r.ret = <<>>
          /\ res.w.registry = registry
          /\ res.w.disk = disk
          /\ res.w.otsFiles = otsFiles
          /\ res.r.submitted = <<>>
          /\ \A i \in 1..Len(res.r.events) : res.r.events[i] \notin {"submit", "append", "save"}

\* Witness of C13: the registry holds an entry and a file has content that
\* is not registered; with a LocalProof that cannot be written the call
\* raises, and without the fault it would have appended an entry.
C13_Witness ==
  /\ registry # <<>>
  /\ \E p \in Paths :
       /\ fs[p] # 0
       /\ HashMatches(registry, calculate_hash(fs[p])) = {}
       /\ protect_file(TheWorld, p, fs[p], [NoFault EXCEPT !.proof = TRUE], "ok").r.outcome = "IOError"
       /\ protect_file(TheWorld, p, fs[p], [NoFault EXCEPT !.read = TRUE], "ok").r.outcome = "IOError"
       /\ Len(protect_file(TheWorld, p, fs[p], NoFault, "ok").w.registry) = Len(registry) + 1

\* C14: export_proof_package for an id that no entry of the registry has
\* raises the not-found error (ValueError "File with ID ... not found") at
\* the lookup: no package directory is made, nothing is copied, and the
\* registry, the ledger and the proofs directory are as they were.
C14_ExportUnknownId ==
  \A id \in Ids :
    (\A i \in 1..Len(registry) : registry[i].id # id)
    => LET res == export_proof_package(TheWorld, id)
       IN /\ res.r.outcome = "ValueError"
          /\ res.r.events = <<"lookup">>
          /\ res.r.package = {}
          /\ res.r.ret = <<>>
          /\ res.w = TheWorld

\* Witness of C14: a registry with an entry that can be exported, and an id
\* that no entry has: the export of that id raises.
C14_Witness ==
  /\ \E id \in Ids : export_proof_package(TheWorld, id).r.outcome = "exported"
  /\ \E id \in Ids :
       /\ \A i \in 1..Len(registry) : registry[i].id # id
       /\ export_proof_package(TheWorld, id).r.outcome = "ValueError"

\* C15 (as claimed): export_proof_package succeeds for every id that an
\* entry of the registry has, with or without an anchor receipt: the package
\* holds the copy of the LocalProof and the summary, holds the anchor
\* artifact exactly when the entry has a receipt, and the registry is not
\* changed.
C15_ExportEveryEntry ==
  \A id \in Ids :
    (\E i \in 1..Len(registry) : registry[i].id = id)
    => LET res == export_proof_package(TheWorld, id)
           entry == registry[FirstWithId(registry, id)]
       IN /\ res.r.outcome = "exported"
          /\ "proof" \in res.r.package
          /\ "SUMMARY" \in res.r.package
          /\ "ots" \in res.r.package <=> entry.proofs.blockchain # <<>>
          /\ res.w = TheWorld

\* The elements of a sequence.
Range(s) == {s[i] : i \in 1..Len(s)}

\* C16 (as claimed): in a batch over a directory, by protect_directory or
\* by auto_protect, a protect_file that fails on one file does not keep the
\* other files from being protected, and every file whose call failed is in
\* the error list of the batch result.
C16_BatchPartialFailure ==
  \A dir \in Dirs : \A order \in GlobOrders(dir) :
    \A faults \in [1..Len(order) -> ReadFaults], nets \in [1..Len(order) -> AnchorOutcomes] :
      LET pd == protect_directory(TheWorld, order, fs, faults, nets)
          ap == auto_protect(TheWorld, order, fs, faults, nets, TRUE)
      IN \A i \in 1..Len(order) :
           /\ ~faults[i].read
              => /\ calculate_hash(fs[order[i]]) \in Hashes(pd.w.registry)
                 /\ calculate_hash(fs[order[i]]) \in Hashes(ap.w.registry)
           /\ faults[i].read
              => /\ PathName(order[i]) \in Range(pd.r.errors)
                 /\ PathName(order[i]) \in Range(ap.r.errors)

NoReceipt(entry) == entry.proofs.blockchain = <<>>

\* C17: protect_file submits to the anchor service exactly once, the
\* file's fingerprint, when the content is not yet registered, and not at
\* all otherwise (missing or unreadable file, registered content); a retry
\* pass submits exactly once for each entry that was pending when it
\* started, in the registry's order, and never for an entry with a receipt.
\* The submissions of a call are made one after the other.
C17_SubmissionCountAndOrder ==
  /\ \A p \in Paths, fault \in ReadFaults, net \in AnchorOutcomes :
       LET res == protect_file(TheWorld, p, fs[p], fault, net)
           fp == calculate_hash(fs[p])
       IN res.r.submitted =
            IF fs[p] # 0 /\ ~fault.read /\ (\A i \in 1..Len(registry) : registry[i].hash # fp)
            THEN <<fp>> ELSE <<>>
  /\ \A nets \in RetryNets :
       LET res == retry_pending_files(TheWorld, nets, NoFault)
           pend == SelectSeq(Persisted, NoReceipt)
       IN /\ res.r.submitted = [i \in 1..Len(pend) |-> pend[i].hash]
          /\ Len(SelectSeq(res.r.events, LAMBDA e : e = "submit")) = Len(pend)

\* Witness of C17: two pending entries in the ledger, which a pass submits
\* in their order, and a file of registered content, for which protect_file
\* submits nothing.
C17_Witness ==
  /\ Len(Persisted) = 2
  /\ NoReceipt(Persisted[1]) /\ NoReceipt(Persisted[2])
  /\ retry_pending_files(TheWorld, AllOk(2), NoFault).r.submitted
       = <<Persisted[1].hash, Persisted[2].hash>>
  /\ \E p \in Paths :
       /\ fs[p] # 0
       /\ protect_file(TheWorld, p, fs[p], NoFault, "ok").r.outcome = "registered"
       /\ protect_file(TheWorld, p, fs[p], NoFault, "ok").r.submitted = <<>>

\* An entry of the old ledger, or the receipt of one, is not in the new one.
Lost(old, new) ==
  \E i \in 1..Len(old) :
    \/ \A j \in 1..Len(new) : new[j].hash # old[i].hash
    \/ /\ old[i].proofs.blockchain # <<>>
       /\ \A j \in 1..Len(new) : new[j].hash = old[i].hash => new[j].proofs.blockchain = <<>>

\* C18: with two processes on one storage directory the ledger can lose an
\* entry or a receipt, and two entries can get the same id (the witness);
\* a rewrite loses something only when the process that writes holds a
\* registry other than the ledger it replaces, which a single writer never
\* does.
C18_LossOnlyByStaleWriter ==
  [][Lost(Persisted, Persisted')
     => \/ registry' # registry /\ registry # Persisted
        \/ registry2' # registry2 /\ registry2 # Persisted]_vars

\* Witness of C18: the LocalProof of an entry that one process persisted is
\* in the proofs directory, the ledger written by the other process has no
\* entry for it, and the two processes hold different entries under one id.
C18_Witness ==
  /\ load_registry(disk).ok
  /\ \E name \in proofFiles :
       \A i \in 1..Len(Persisted) : Persisted[i].proofs.local.proof_file # name
  /\ \E i \in 1..Len(registry), j \in 1..Len(registry2) :
       registry[i].id = registry2[j].id /\ registry[i].hash # registry2[j].hash

\* C19: when protect_file returns the entry it appended, and when a retry
\* pass over pending entries returns, registry.json holds exactly the
\* entries of the instance's registry, in order and field by field, so the
\* next CopyrightProtector loads the same sequence.
C19_MutationsPersisted ==
  /\ \A p \in Paths, fault \in DiskFaults, net \in AnchorOutcomes :
       LET res == protect_file(TheWorld, p, fs[p], fault, net)
       IN res.r.outcome = "protected"
          => /\ Len(res.w.registry) = Len(registry) + 1
             /\ load_registry(res.w.disk).ok
             /\ load_registry(res.w.disk).files = res.w.registry
  /\ \A nets \in RetryNets, fault \in DiskFaults :
       LET res == retry_pending_files(TheWorld, nets, fault)
       IN res.r.outcome = "done"
          => /\ load_registry(res.w.disk).ok
             /\ load_registry(res.w.disk).files = res.w.registry

\* Witness of C19: the ledger holds a pending entry, which a pass anchors
\* and persists, and the file's content is not registered, so protect_file
\* appends an entry and persists it.
C19_Witness ==
  /\ \E i \in 1..Len(Persisted) : NoReceipt(Persisted[i])
  /\ LET res == retry_pending_files(TheWorld, AllOk(Len(PendingOf(Persisted))), NoFault)
     IN /\ res.r.outcome = "done"
        /\ res.w.disk # disk
        /\ load_registry(res.w.disk).files = res.w.registry
  /\ \E p \in Paths :
       LET res == protect_file(TheWorld, p, fs[p], NoFault, "ok")
       IN /\ res.r.outcome = "protected"
          /\ load_registry(res.w.disk).files = res.w.registry
          /\ Len(load_registry(res.w.disk).files) = Len(registry) + 1

\* C20 (as claimed): whatever the calls, the faults of the storage
\* directory and the new instances made on it, no LocalProof document (one
\* per source base name and fingerprint) is written a second time, over the
\* one already in the proofs directory.
C20_LocalProofWrittenOnce == rewritten = {}

\* ------------------------------------------------------------------ C21..C30
\* C21: when the registry has an entry with the file's fingerprint, with
\* or without a receipt, protect_file stops at the lookup: it writes no
\* LocalProof, submits nothing, writes no anchor artifact and does not
\* rewrite registry.json, whatever faults the later steps would have met.
C21_GateWritesNothing ==
  \A p \in Paths, fault \in Faults, net \in AnchorOutcomes :
    (/\ fs[p] # 0
     /\ ~fault.read
     /\ \E i \in 1..Len(registry) : registry[i].hash = calculate_hash(fs[p]))
    => LET res == protect_file(TheWorld, p, fs[p], fault, net)
       IN /\ res.r.events = <<"hash", "lookup">>
          /\ res.w.proofFiles = proofFiles
          /\ res.w.rewritten = rewritten
          /\ res.r.submitted = <<>>
          /\ res.w.otsFiles = otsFiles
          /\ res.w.disk = disk
          /\ res.w.registry = registry

\* Witness of C21: a file whose content is registered in an entry that has
\* no receipt, and the anchor service would answer: the call returns that
\* entry and submits nothing.
C21_Witness ==
  \E p \in Paths, i \in 1..Len(registry) :
    /\ fs[p] # 0
    /\ registry[i].hash = calculate_hash(fs[p])
    /\ registry[i].proofs.blockchain = <<>>
    /\ LET res == protect_file(TheWorld, p, fs[p], NoFault, "ok")
       IN res.r.outcome = "registered" /\ res.r.ret = <<registry[i]>> /\ res.r.submitted = <<>>

\* The steps of protect_file on new content, in the order of the code.
StepOrder == <<"hash", "lookup", "local_proof", "submit", "append", "save">>

IsPrefix(s, t) == Len(s) <= Len(t) /\ \A i \in 1..Len(s) : s[i] = t[i]

\* C22: on content that is not registered, protect_file takes its steps in
\* one order, lookup, LocalProof, submission, append, rewrite, and a call
\* that fails stops at a step without having taken a later one; when the
\* submission is made the LocalProof is in the proofs directory, the entry
\* is appended only after a submission was made, and an entry in the
\* registry or in registry.json always has its LocalProof written.
C22_StepOrder ==
  \A p \in Paths, fault \in Faults, net \in AnchorOutcomes :
    (fs[p] # 0 /\ \A i \in 1..Len(registry) : registry[i].hash # calculate_hash(fs[p]))
    => LET res == protect_file(TheWorld, p, fs[p], fault, net)
           name == ProofFileName(p.stem, calculate_hash(fs[p]))
           new == load_registry(res.w.disk)
       IN /\ IsPrefix(res.r.events, StepOrder)
          /\ res.r.submitted # <<>> => name \in res.w.proofFiles
          /\ res.w.registry # registry
             => /\ res.r.submitted # <<>>
                /\ name \in res.w.proofFiles
                /\ res.r.events[Len(res.r.events)] = "save"
          /\ res.w.disk # disk => res.w.registry # registry
          /\ new.ok => \A i \in 1..Len(new.files) :
                         new.files[i].proofs.local.proof_file \in res.w.proofFiles

\* Witness of C22: a file of unregistered content next to a registry that
\* has an entry; the call takes all six steps and the new entry's LocalProof
\* is written.
C22_Witness ==
  /\ registry # <<>>
  /\ \E p \in Paths :
       LET res == protect_file(TheWorld, p, fs[p], NoFault, "url_error")
       IN /\ res.r.outcome = "protected"
          /\ res.r.events = StepOrder
          /\ res.r.ret[1].proofs.local.proof_file \in res.w.proofFiles \ proofFiles

\* C23: in a retry pass a submission that fails raises nothing and leaves
\* its entry without a receipt, and the pass goes on: every pending entry
\* is submitted, and exactly those whose submission succeeded have their
\* receipt in registry.json when the pass returns.
C23_RetryFailureIsolation ==
  \A nets \in RetryNets :
    LET pend == SelectSeq(Persisted, NoReceipt)
        res == retry_pending_files(TheWorld, nets, NoFault)
        new == load_registry(res.w.disk)
    IN pend # <<>>
       => /\ res.r.outcome = "done"
          /\ Len(res.r.submitted) = Len(pend)
          /\ new.ok /\ Len(new.files) = Len(Persisted)
          /\ \A k \in 1..Len(pend) : \A i \in 1..Len(new.files) :
               new.files[i].id = pend[k].id
               => (new.files[i].proofs.blockchain # <<>> <=> nets[k] = "ok")

\* Witness of C23: two pending entries; in a pass where the first
\* submission fails and the second succeeds, the second entry is anchored
\* and the first is still pending.
C23_Witness ==
  /\ Len(Persisted) = 2
  /\ NoReceipt(Persisted[1]) /\ NoReceipt(Persisted[2])
  /\ LET res == retry_pending_files(TheWorld, <<"other_error", "ok">>, NoFault)
         new == load_registry(res.w.disk).files
     IN NoReceipt(new[1]) /\ ~NoReceipt(new[2]) /\ res.r.outcome = "done"

\* C24: a retry pass that finds a pending entry rewrites registry.json
\* once, as its last step, after all its submissions, whether they
\* succeeded or not; nothing is written between the updates, so when that
\* one rewrite is refused the file is as it was before the pass.
C24_RetryPersistsOnce ==
  \A nets \in RetryNets, fault \in Faults :
    LET pend == SelectSeq(Persisted, NoReceipt)
        res == retry_pending_files(TheWorld, nets, fault)
        n == Len(res.r.events)
    IN pend # <<>>
       => /\ n = Len(pend) + 2
          /\ res.r.events[n] = "save"
          /\ \A i \in 1..(n - 1) : res.r.events[i] # "save"
          /\ \A i \in 2..(n - 1) : res.r.events[i] = "submit"
          /\ fault.save = "denied" => res.w.disk = disk
          /\ fault.save = "none" => res.w.disk = FileWith(json_dump(res.w.registry))

\* Witness of C24: two pending entries, both anchored by a pass: the pass
\* submits twice and rewrites the ledger once, and with the rewrite refused
\* neither receipt is in the file.
C24_Witness ==
  /\ Len(Persisted) = 2
  /\ NoReceipt(Persisted[1]) /\ NoReceipt(Persisted[2])
  /\ retry_pending_files(TheWorld, AllOk(2), NoFault).r.events
       = <<"load", "submit", "submit", "save">>
  /\ retry_pending_files(TheWorld, AllOk(2), [NoFault EXCEPT !.save = "denied"]).w.disk = disk
  /\ retry_pending_files(TheWorld, AllOk(2), NoFault).w.disk # disk

\* C25: a protect_file call that registers new content leaves every entry
\* of the registry where it was, with all its fields, and adds one entry
\* after them: it has the file's fingerprint, the reference of the
\* LocalProof, the receipt of the submission or none, and status
\* "protected"; registry.json then holds the same sequence.
C25_ProtectAppendsOne ==
  \A p \in Paths, net \in AnchorOutcomes :
    LET res == protect_file(TheWorld, p, fs[p], NoFault, net)
        new == res.w.registry
        fp == calculate_hash(fs[p])
    IN (fs[p] # 0 /\ \A i \in 1..Len(registry) : registry[i].hash # fp)
       => /\ Len(new) = Len(registry) + 1
          /\ SubSeq(new, 1, Len(registry)) = registry
          /\ new[Len(new)].hash = fp
          /\ new[Len(new)].original_path = p
          /\ new[Len(new)].proofs.local.proof_file = ProofFileName(p.stem, fp)
          /\ new[Len(new)].proofs.blockchain
               = (IF net = "ok" THEN <<AnchorReceipt(p.stem, fp)>> ELSE <<>>)
          /\ new[Len(new)].status = "protected"
          /\ res.r.ret = <<new[Len(new)]>>
          /\ load_registry(res.w.disk).files = new

\* Witness of C25: the registry holds an anchored entry and a file has
\* unregistered content; the call with the anchor service down appends an
\* entry without a receipt and leaves the anchored one as it was.
C25_Witness ==
  /\ \E i \in 1..Len(registry) : registry[i].proofs.blockchain # <<>>
  /\ \E p \in Paths :
       LET res == protect_file(TheWorld, p, fs[p], NoFault, "url_error")
       IN /\ res.r.outcome = "protected"
          /\ res.w.registry = Append(registry, res.r.ret[1])
          /\ res.r.ret[1].proofs.blockchain = <<>>

\* The receipts of a sequence of entries.
ReceiptsOf(files) == {files[i].proofs.blockchain[1] : i \in {j \in 1..Len(files) : ~NoReceipt(files[j])}}

\* C26: every receipt in the registry and in registry.json, attached by
\* protect_file or by a retry pass, has status "pending_confirmation", and
\* no call changes the status of a receipt: a submission returns as soon as
\* the service has answered.
C26_ReceiptsPendingConfirmation ==
  /\ \A r \in ReceiptsOf(registry) \cup ReceiptsOf(Persisted) : r.status = "pending_confirmation"
  /\ \A p \in Paths, net \in AnchorOutcomes :
       \A r \in ReceiptsOf(protect_file(TheWorld, p, fs[p], NoFault, net).w.registry) :
         r.status = "pending_confirmation"
  /\ \A nets \in RetryNets :
       \A r \in ReceiptsOf(load_registry(retry_pending_files(TheWorld, nets, NoFault).w.disk).files) :
         r.status = "pending_confirmation"

\* Witness of C26: the ledger holds a receipt attached by protect_file and a
\* pending entry to which a retry pass attaches one.
C26_Witness ==
  /\ Len(Persisted) = 2
  /\ \E i, j \in 1..2 :
       /\ ~NoReceipt(Persisted[i])
       /\ NoReceipt(Persisted[j])
       /\ LET new == load_registry(retry_pending_files(TheWorld, AllOk(1), NoFault).w.disk).files
          IN ~NoReceipt(new[j]) /\ new[j].proofs.blockchain[1].status = "pending_confirmation"

\* The entries of old that have a receipt are at their place in new, with
\* the same receipt.
ReceiptsKept(old, new) ==
  \A i \in 1..Len(old) :
    ~NoReceipt(old[i])
    => /\ i <= Len(new)
       /\ new[i].id = old[i].id
       /\ new[i].proofs.blockchain = old[i].proofs.blockchain

\* C27: with one writer, no step of any operation (protect_file and the
\* batches, verify_file, export_proof_package, a retry pass, a new instance)
\* removes or changes a receipt that an entry has, in the registry or in
\* registry.json.
C27_AnchorMonotone ==
  [][ReceiptsKept(registry, registry') /\ ReceiptsKept(Persisted, Persisted')]_vars

\* Witness of C27: an entry anchored by protect_file is followed by an entry
\* that a later retry pass anchored: both have their receipts, and nothing
\* is pending.
C27_Witness ==
  /\ Len(Persisted) = 2
  /\ ~NoReceipt(Persisted[1]) /\ ~NoReceipt(Persisted[2])
  /\ registry = Persisted
  /\ Persisted[1].original_path # Persisted[2].original_path
  /\ retry_pending_files(TheWorld, <<>>, NoFault).r.outcome = "nothing_pending"

PendingHash(fp) == \E i \in 1..Len(Persisted) : Persisted[i].hash = fp /\ NoReceipt(Persisted[i])

AnchoredHash(fp) == \E i \in 1..Len(Persisted) : Persisted[i].hash = fp /\ ~NoReceipt(Persisted[i])

\* C28: when retry passes keep being run and the submission of each pending
\* entry succeeds in some pass, every entry that is pending in registry.json
\* gets its receipt there; and once no entry is pending a pass submits
\* nothing and changes nothing.
C28_EventualAnchoring ==
  /\ \A c \in Contents : PendingHash(calculate_hash(c)) ~> AnchoredHash(calculate_hash(c))
  /\ []((\A c \in Contents : ~PendingHash(calculate_hash(c)))
        => LET res == retry_pending_files(TheWorld, <<>>, NoFault)
           IN /\ res.r.outcome = "nothing_pending"
              /\ res.r.submitted = <<>>
              /\ res.w.disk = disk
              /\ res.w.otsFiles = otsFiles)

\* Witness of C28: the ledger holds two pending entries; a pass whose
\* submissions succeed anchors both, and the pass after it finds nothing
\* pending.
C28_Witness ==
  /\ Len(Persisted) = 2
  /\ PendingHash(Persisted[1].hash) /\ PendingHash(Persisted[2].hash)
  /\ LET first == retry_pending_files(TheWorld, AllOk(2), NoFault)
         second == retry_pending_files(first.w, <<>>, NoFault)
     IN /\ first.r.outcome = "done"
        /\ \A i \in 1..2 : ~NoReceipt(load_registry(first.w.disk).files[i])
        /\ second.r.outcome = "nothing_pending"
        /\ second.w.disk = first.w.disk

\* Every receipt of the entries is the one a submission of the entry's own
\* fingerprint, under the entry's own file name, returns.
ReceiptsBound(files) ==
  \A i \in 1..Len(files) :
    ~NoReceipt(files[i])
    => files[i].proofs.blockchain
         = <<AnchorReceipt(PathStem(files[i].file_name), files[i].hash)>>

\* C29: with one writer, every receipt on an entry, in the registry and
\* in registry.json, comes from a submission of that entry's fingerprint: a
\* retry pass attaches each receipt to the pending entry it was obtained
\* for, whatever the outcomes of the other submissions, and protect_file
\* attaches the receipt of the file it registers.
C29_ReceiptBoundToEntry ==
  /\ ReceiptsBound(registry)
  /\ ReceiptsBound(Persisted)
  /\ \A nets \in RetryNets :
       LET res == retry_pending_files(TheWorld, nets, NoFault)
       IN ReceiptsBound(res.w.registry) /\ ReceiptsBound(load_registry(res.w.disk).files)
  /\ \A p \in Paths, net \in AnchorOutcomes :
       ReceiptsBound(protect_file(TheWorld, p, fs[p], NoFault, net).w.registry)

\* Witness of C29: two pending entries of different files; in a pass where
\* only the first submission succeeds, the first entry gets the receipt of
\* its own fingerprint and the second stays pending.
C29_Witness ==
  /\ Len(Persisted) = 2
  /\ NoReceipt(Persisted[1]) /\ NoReceipt(Persisted[2])
  /\ Persisted[1].file_name # Persisted[2].file_name
  /\ LET new == retry_pending_files(TheWorld, <<"ok", "url_error">>, NoFault).w.registry
     IN /\ new[1].proofs.blockchain[1].ots_file
             = OtsFileName(PathStem(Persisted[1].file_name), Persisted[1].hash)
        /\ NoReceipt(new[2])

\* Every entry's LocalProof is among the proof files, and every receipt's
\* anchor artifact among the .ots files.
EvidencePresent(files, pfs, ots) ==
  \A i \in 1..Len(files) :
    /\ files[i].proofs.local.proof_file \in pfs
    /\ ~NoReceipt(files[i]) => files[i].proofs.blockchain[1].ots_file \in ots

\* C30: with one writer, in every reachable state and after every call,
\* each entry of the registry and of registry.json references a LocalProof
\* that is in the proofs directory and, when it has a receipt, an anchor
\* artifact that is there too; a submission writes an anchor artifact only
\* when it succeeds, and then returns the receipt that references it.
C30_EvidenceIntegrity ==
  /\ EvidencePresent(registry, proofFiles, otsFiles)
  /\ EvidencePresent(Persisted, proofFiles, otsFiles)
  /\ \A p \in Paths, c \in Contents, net \in AnchorOutcomes :
       LET ts == create_timestamp_opentimestamps(otsFiles, calculate_hash(c), p.stem, net)
       IN /\ net # "ok" => ts.otsFiles = otsFiles /\ ts.receipt = <<>>
          /\ net = "ok" => /\ ts.receipt # <<>>
                           /\ ts.otsFiles = otsFiles \cup {ts.receipt[1].ots_file}
  /\ \A p \in Paths, fault \in Faults, net \in AnchorOutcomes :
       LET res == protect_file(TheWorld, p, fs[p], fault, net)
       IN /\ EvidencePresent(res.w.registry, res.w.proofFiles, res.w.otsFiles)
          /\ res.w.otsFiles # otsFiles => net = "ok"
  /\ \A nets \in RetryNets :
       LET res == retry_pending_files(TheWorld, nets, NoFault)
       IN /\ EvidencePresent(res.w.registry, res.w.proofFiles, res.w.otsFiles)
          /\ EvidencePresent(load_registry(res.w.disk).files, res.w.proofFiles, res.w.otsFiles)
          /\ res.w.otsFiles # otsFiles => \E k \in 1..Len(nets) : nets[k] = "ok"

\* Witness of C30: the ledger holds an entry with a receipt and one
\* without; the .ots file of the first is written, none was written for the
\* second, and both LocalProofs are written.
C30_Witness ==
  /\ registry = Persisted
  /\ \E i, j \in 1..Len(registry) :
       /\ ~NoReceipt(registry[i])
       /\ NoReceipt(registry[j])
       /\ registry[i].proofs.blockchain[1].ots_file \in otsFiles
       /\ OtsFileName(PathStem(registry[j].file_name), registry[j].hash) \notin otsFiles
       /\ {registry[i].proofs.local.proof_file, registry[j].proofs.local.proof_file}
            \subseteq proofFiles

====
